---- MODULE Spec2Model ----
(***************************************************************************)
(* Model of the x402 payment flow of scaffold-x402-demo: the React state   *)
(* of one useX402Payment instance (packages/nextjs/hooks/                  *)
(* useX402Payment.ts), its pay(), reset() and fetchPaymentRequirements()   *)
(* operations and the asynchronous steps at which they suspend (every      *)
(* await is a separate step); the selectors of                             *)
(* utils/paymentRequiredSelector and components/                           *)
(* PaymentRequirementSelector.tsx; and the page that pays with the         *)
(* requirement the user selected (app/payment/builder/page.tsx).           *)
(***************************************************************************)
EXTENDS Integers, Sequences, FiniteSets, TLC

(* ---------------------------------------------------------------------- *)
(* Bounds                                                                  *)
(* ---------------------------------------------------------------------- *)
\* number of pay() invocations on the hook instance
MaxPays == 2
\* number of requirement fetches started (the one on mount included)
MaxFetches == 3
\* length of the accepts lists handed to a selector called on its own
MaxAccepts == 3

(* ---------------------------------------------------------------------- *)
(* Values                                                                  *)
(* ---------------------------------------------------------------------- *)
\* null / undefined, and a present value (useState<T | null>)
None == <<>>
Some(x) == <<x>>

PaymentStatus == {"idle", "paying", "success", "error"}

\* the states of useWalletClient().data: undefined, a client without an
\* account, a client with an account
WalletStates == {"none", "noAccount", "connected"}

\* the routes the resource server protects
Urls == {"/api/stream/access", "/payment/builder"}

\* payment requirements offered by the resource server
\* (amount is the decimal string of the price in token base units, digit by
\* digit)
R1 == [scheme |-> "exact", network |-> "eip155:84532", asset |-> "usdc:84532",
       amount |-> <<1, 0, 0, 0, 0>>, payTo |-> "payTo"]
R2 == [scheme |-> "exact", network |-> "eip155:8453", asset |-> "usdc:8453",
       amount |-> <<1, 0, 0, 0, 0>>, payTo |-> "payTo"]

\* variants of R1: a lower price with fewer digits, the same price written
\* with a leading zero, another scheme, another recipient, another asset
R1Cheaper == [R1 EXCEPT !.amount = <<9, 0, 0, 0>>]
R1Padded == [R1 EXCEPT !.amount = <<0, 1, 0, 0, 0, 0>>]
R1Upto == [R1 EXCEPT !.scheme = "upto"]
R1OtherPayTo == [R1 EXCEPT !.payTo = "otherPayTo"]
R1OtherAsset == [R1 EXCEPT !.asset = "dai:84532"]
\* R2 at the lower price
R2Cheaper == [R2 EXCEPT !.amount = <<9, 0, 0, 0>>]

Requirements ==
  {R1, R2, R1Cheaper, R1Padded, R1Upto, R1OtherPayTo, R1OtherAsset, R2Cheaper}

\* chain ids of the wallet: Base Sepolia, Base, Ethereum mainnet
ChainIds == {84532, 8453, 1}

\* the accepts list the server at a url puts in its PAYMENT-REQUIRED header
AcceptsOf(u) == IF u = "/api/stream/access" THEN <<R1, R2>> ELSE <<R1>>

\* the route configuration of the resource server: the one deployed, and one
\* changed by a redeployment (the Base Sepolia price lowered and listed last)
ServerConfigs == {"deployed", "changed"}

ServerAccepts(u, cfg) ==
  IF cfg = "deployed" THEN AcceptsOf(u)
  ELSE IF u = "/api/stream/access" THEN <<R2, R1Cheaper>>
  ELSE <<R1Cheaper>>

\* messages of the errors thrown
NoWalletMsg == "No wallet client available. Make sure wallet is connected."
NoAccountMsg == "Wallet client must have an account"
NoOptionsMsg == "No payment options available"
NoNetworkOptionMsg(chainId) ==
  "No payment option available for current network (eip155:" \o ToString(chainId) \o ")"
NotFoundMsg == "Selected payment requirement not found in available options"
UnknownMsg == "Unknown error occurred"
RequestFailedMsg == "Request failed: 500 Internal Server Error"
NetworkMsg == "Failed to fetch"
SignRejectedMsg == "User rejected the request."
HeaderDecodeMsg == "Invalid payment response header"
BodyParseMsg == "Unexpected token < in JSON"
CallbackMsg == "callback threw"
\* an Error constructed without a message
EmptyMsg == ""

(* ---------------------------------------------------------------------- *)
(* Selectors (SelectPaymentRequirements): (version, accepts) => requirement *)
(* ---------------------------------------------------------------------- *)
\* a selector returns a requirement or throws: ok tells which, err is the
\* message of the error thrown, req the requirement returned. The accepts
\* argument is None when it is missing (undefined), Some(list) otherwise.
Throws(e) == [ok |-> FALSE, err |-> e, req |-> R1]
Returns(r) == [ok |-> TRUE, err |-> EmptyMsg, req |-> r]

\* !accepts || accepts.length === 0
NoOptions(acc) == acc = None \/ Len(acc[1]) = 0

\* BigInt(s) of a string of decimal digits
RECURSIVE BigInt(_)
BigInt(s) == IF Len(s) = 0 THEN 0 ELSE 10 * BigInt(SubSeq(s, 1, Len(s) - 1)) + s[Len(s)]

\* s < t on strings of digits, as the < of two strings compares them
RECURSIVE StringLess(_, _)
StringLess(s, t) ==
  IF Len(t) = 0 THEN FALSE
  ELSE IF Len(s) = 0 THEN TRUE
  ELSE IF Head(s) # Head(t) THEN Head(s) < Head(t)
  ELSE StringLess(Tail(s), Tail(t))

\* the comparator, comparing the amounts as strings
compareAmountStrings(a, b) ==
  IF StringLess(a.amount, b.amount) THEN -1
  ELSE IF StringLess(b.amount, a.amount) THEN 1
  ELSE 0

\* the comparator selectCheapestOption sorts with
compareAmounts(a, b) ==
  LET aValue == BigInt(a.amount)
      bValue == BigInt(b.amount)
  IN  IF aValue < bValue THEN -1
      ELSE IF aValue > bValue THEN 1
      ELSE 0

\* Array.prototype.sort with compareAmounts: a stable sort, so x is put
\* behind the elements that compare equal to it
RECURSIVE Insert(_, _)
Insert(sorted, x) ==
  IF Len(sorted) = 0 THEN <<x>>
  ELSE IF compareAmounts(x, Head(sorted)) < 0 THEN <<x>> \o sorted
  ELSE <<Head(sorted)>> \o Insert(Tail(sorted), x)

RECURSIVE Sort(_)
Sort(accepts) ==
  IF Len(accepts) = 0 THEN <<>>
  ELSE Insert(Sort(SubSeq(accepts, 1, Len(accepts) - 1)), accepts[Len(accepts)])

selectCheapestOption(acc) ==
  IF NoOptions(acc) THEN Throws(NoOptionsMsg)
  ELSE LET sorted == Sort(acc[1])
       IN  Returns(sorted[1])

\* selectFirstOption, returning the last element
selectLastOption(acc) ==
  IF NoOptions(acc) THEN Throws(NoOptionsMsg)
  ELSE Returns(acc[1][Len(acc[1])])

selectFirstOption(acc) ==
  IF NoOptions(acc) THEN Throws(NoOptionsMsg)
  ELSE Returns(acc[1][1])

\* `eip155:${chainId}`
Eip155(chainId) == "eip155:" \o ToString(chainId)

\* findNetwork, returning the last entry on the network
RECURSIVE findLastNetwork(_, _)
findLastNetwork(accepts, network) ==
  IF Len(accepts) = 0 THEN None
  ELSE IF accepts[Len(accepts)].network = network THEN Some(accepts[Len(accepts)])
  ELSE findLastNetwork(SubSeq(accepts, 1, Len(accepts) - 1), network)

\* accepts.find(option => option.network === network)
RECURSIVE findNetwork(_, _)
findNetwork(accepts, network) ==
  IF Len(accepts) = 0 THEN None
  ELSE IF Head(accepts).network = network THEN Some(Head(accepts))
  ELSE findNetwork(Tail(accepts), network)

\* createSelectForCurrentNetwork, looking for the network before it looks at
\* the length of accepts
createSelectForCurrentNetworkFindsFirst(chainId, acc) ==
  IF acc = None THEN Throws("Cannot read properties of undefined (reading 'find')")
  ELSE LET selectedPaymentRequirement == findNetwork(acc[1], Eip155(chainId))
       IN  IF selectedPaymentRequirement = None
             THEN Throws(NoNetworkOptionMsg(chainId))
             ELSE Returns(selectedPaymentRequirement[1])

\* the selector createSelectForCurrentNetwork(chainId) returns
createSelectForCurrentNetwork(chainId, acc) ==
  IF NoOptions(acc) THEN Throws(NoOptionsMsg)
  ELSE LET selectedPaymentRequirement == findNetwork(acc[1], Eip155(chainId))
       IN  IF selectedPaymentRequirement = None
             THEN Throws(NoNetworkOptionMsg(chainId))
             ELSE Returns(selectedPaymentRequirement[1])

\* the predicate, without the comparison of the amounts
MatchesButAmount(option, selectedRequirement) ==
  /\ option.network = selectedRequirement.network
  /\ option.asset = selectedRequirement.asset
  /\ option.payTo = selectedRequirement.payTo

\* the predicate of the find in createSelectByRequirement
MatchesRequirement(option, selectedRequirement) ==
  /\ option.network = selectedRequirement.network
  /\ option.asset = selectedRequirement.asset
  /\ option.amount = selectedRequirement.amount
  /\ option.payTo = selectedRequirement.payTo

RECURSIVE findRequirement(_, _)
findRequirement(accepts, selectedRequirement) ==
  IF Len(accepts) = 0 THEN None
  ELSE IF MatchesRequirement(Head(accepts), selectedRequirement) THEN Some(Head(accepts))
  ELSE findRequirement(Tail(accepts), selectedRequirement)

\* the selector createSelectByRequirement(selectedRequirement) returns
createSelectByRequirement(selectedRequirement, acc) ==
  IF NoOptions(acc) THEN Throws(NoOptionsMsg)
  ELSE LET matched == findRequirement(acc[1], selectedRequirement)
       IN  IF matched = None
             THEN Throws(NotFoundMsg)
             ELSE Returns(matched[1])

\* the default selector of pay(): first available option
DefaultSelector(acc) ==
  IF NoOptions(acc) THEN Throws(NoOptionsMsg)
  ELSE Returns(acc[1][1])

\* a selector as a value: which function it is and what its factory closed
\* over (chainId for createSelectForCurrentNetwork, pinned for
\* createSelectByRequirement)
Selector(kind, chainId, pinned) == [kind |-> kind, chainId |-> chainId, pinned |-> pinned]

DefaultSel == Selector("default", 0, R1)
FirstSel == Selector("selectFirstOption", 0, R1)
CheapestSel == Selector("selectCheapestOption", 0, R1)
NetworkSel(chainId) == Selector("selectForCurrentNetwork", chainId, R1)
RequirementSel(selectedRequirement) == Selector("selectByRequirement", 0, selectedRequirement)

Selectors ==
  {DefaultSel, FirstSel, CheapestSel}
    \cup {NetworkSel(c) : c \in ChainIds}
    \cup {RequirementSel(r) : r \in Requirements}

\* selector(version, accepts)
Select(selector, acc) ==
  CASE selector.kind = "default" -> DefaultSelector(acc)
    [] selector.kind = "selectFirstOption" -> selectFirstOption(acc)
    [] selector.kind = "selectCheapestOption" -> selectCheapestOption(acc)
    [] selector.kind = "selectForCurrentNetwork" ->
         createSelectForCurrentNetwork(selector.chainId, acc)
    [] selector.kind = "selectByRequirement" ->
         createSelectByRequirement(selector.pinned, acc)

(* ---------------------------------------------------------------------- *)
(* State                                                                   *)
(* ---------------------------------------------------------------------- *)
VARIABLES
  status,               \* useState<PaymentStatus>
  error,                \* useState<string | null>
  result,               \* useState<any>
  paymentRequirements,  \* useState<PaymentRequirements[] | null>
  walletClient,         \* useWalletClient().data
  url,                  \* the hook's url argument
  callbacks,            \* the PayCallbacks the caller hands to pay()
  att,                  \* the pay() invocations, in the order they were made
  resetInFlight,        \* history: reset() ran while a pay() awaited its request
  fetches,              \* the fetchPaymentRequirements() calls, in order
  selectedRequirement,  \* the page's useState<PaymentRequirements | null>
  server,               \* the resource server's route configuration
  call,                 \* a function called on its own: its arguments and return
  hasAccessToStream,    \* useGlobalState().hasAccessToStream
  renderedStatus,       \* the status of the page's last render
  ivs                   \* the IVSPlayer component: its refs, effects and players

vars == <<status, error, result, paymentRequirements, walletClient, url, callbacks, att,
          resetInFlight, fetches, selectedRequirement, server, call, hasAccessToStream,
          renderedStatus, ivs>>

(* ---------------------------------------------------------------------- *)
(* Callbacks handed to pay()                                               *)
(* ---------------------------------------------------------------------- *)
\* each optional callback of PayCallbacks is absent, returns (or resolves),
\* or throws (or rejects)
CallbackBehaviours == {"absent", "returns", "throws"}

NoCallbacks == [onSuccess |-> "absent", onError |-> "absent", onSettled |-> "absent"]
AllReturn == [onSuccess |-> "returns", onError |-> "returns", onSettled |-> "returns"]
SuccessThrows == [onSuccess |-> "throws", onError |-> "returns", onSettled |-> "returns"]
SettledThrows == [onSuccess |-> "returns", onError |-> "returns", onSettled |-> "throws"]
ErrorThrows == [onSuccess |-> "returns", onError |-> "throws", onSettled |-> "returns"]

CallbackSets == {NoCallbacks, AllReturn, SuccessThrows, SettledThrows, ErrorThrows}

\* the callbacks handlePayment hands to pay(): onSuccess and onError, which
\* return, and no onSettled
PageCallbacks == [onSuccess |-> "returns", onError |-> "returns", onSettled |-> "absent"]

\* hasAccessToStream after the onSuccess of the callbacks has run: the page's
\* calls setHasAccessToStream(true)
AfterOnSuccess == IF callbacks = PageCallbacks THEN TRUE ELSE hasAccessToStream

\* an onError that unlocks the stream like the page's onSuccess
AfterOnErrorUnlocks == IF callbacks = PageCallbacks THEN TRUE ELSE hasAccessToStream

\* hasAccessToStream after the onError of the callbacks has run: the page's
\* only logs
AfterOnError == hasAccessToStream

\* no IVSPlayer is rendered
NoPlayer == [mounted |-> FALSE, playerRef |-> None, effects |-> <<>>]

(* ---------------------------------------------------------------------- *)
(* The request wrapper: wrapFetchWithPayment(fetch, client)                *)
(* ---------------------------------------------------------------------- *)
\* the final response as pay() reads it: response.ok, whether the body
\* parses as JSON, and the PAYMENT-RESPONSE header
Responses == [ok : BOOLEAN, body : {"json", "invalid"}, hdr : {"absent", "valid", "invalid"}]

NoResponse == [ok |-> FALSE, body |-> "invalid", hdr |-> "absent"]

\* the errors the signer capability rejects with
SignErrors == {SignRejectedMsg, EmptyMsg}

\* what the server may offer in the PAYMENT-REQUIRED header of its 402
Offers(u, cfg) == {ServerAccepts(u, cfg), <<>>}

\* offered is the accepts list of the 402 the first request was answered
\* with, if it was, and signed the requirement handed to the signer, if any
Thrown(events, e) ==
  [kind |-> "throw", events |-> events, err |-> e, resp |-> NoResponse,
   offered |-> None, signed |-> None]
Returned(events, r) ==
  [kind |-> "response", events |-> events, err |-> EmptyMsg, resp |-> r,
   offered |-> None, signed |-> None]
Offered(accepts, out) == [out EXCEPT !.offered = Some(accepts)]
Signing(req, out) == [out EXCEPT !.signed = Some(req)]

\* every way one call of fetchWithPayment(url) can end, for the selector the
\* client was built with and the lists the server may offer: the requests it
\* issued, whether it invoked the selector and the signer, and the response
\* it resolves with or the error it rejects with. The client hands the
\* selector the offered requirements of the scheme and networks registered
\* ("eip155:*", exact), which all requirements offered here are.
WrapperOutcomes(selector, offers) ==
  LET first == <<"request">>
      selected == <<"request", "select">>
      signed == <<"request", "select", "sign">>
      retried == <<"request", "select", "sign", "retry">>
      AfterOffer(accepts) ==
        LET picked == Select(selector, Some(accepts))
        IN  IF ~picked.ok
              THEN {Offered(accepts, Thrown(selected, picked.err))}
              ELSE {Offered(accepts, Signing(picked.req, out)) :
                      out \in {Thrown(signed, e) : e \in SignErrors}
                                \cup {Thrown(retried, NetworkMsg)}
                                \cup {Returned(retried, r) : r \in Responses}}
  IN  {Thrown(first, NetworkMsg)}
      \cup {Returned(first, r) : r \in {r \in Responses : r.hdr = "absent"}}
      \cup UNION {AfterOffer(accepts) : accepts \in offers}

(* ---------------------------------------------------------------------- *)
(* pay()                                                                   *)
(* ---------------------------------------------------------------------- *)
\* the message of the error as it is, without the fallback
ErrorMessageOnly(e) == e

\* err?.message || "Unknown error occurred"
ErrorMessage(e) == IF e = EmptyMsg THEN UnknownMsg ELSE e

\* one pay() invocation: where it is suspended (pc), the calls it has caused
\* so far, in order (log), the response fetchWithPayment resolved with (resp),
\* the error its catch block caught (err), the parsed body (data), what its
\* promise settled with (out), the selector its client was built with (sel)
\* the accepts list its first request was answered with (offered) and the
\* requirement its signer was handed (signed)
NewAttempt ==
  [pc |-> "fetch", log |-> <<>>, resp |-> None, err |-> EmptyMsg, data |-> None,
   out |-> None, sel |-> DefaultSel, offered |-> None, signed |-> None]

\* pay() using its default selector whatever selector it is passed
SelectorIgnored(selector) == DefaultSel

\* selector || (the default selector)
SelectorOrDefault(selector) == IF selector = None THEN DefaultSel ELSE selector[1]

\* the invocations with invocation a set to at (a is an earlier invocation or
\* the one being made)
WithAttempt(a, at) == IF a > Len(att) THEN Append(att, at) ELSE [att EXCEPT ![a] = at]

\* Catch, calling fetchWithPayment(url) once more when its first call threw
CatchRetriesOnce(a, at, e) ==
  IF at.pc = "fetch" /\ Len(SelectSeq(at.log, LAMBDA c : c = "request")) = 1
    THEN /\ status' = "paying"
         /\ error' = None
         /\ att' = WithAttempt(a, at)
    ELSE /\ error' = Some(ErrorMessage(e))
         /\ status' = "error"
         /\ att' = WithAttempt(a,
              IF callbacks.onError # "absent"
                THEN [at EXCEPT !.pc = "onError", !.err = e, !.log = Append(at.log, "onError")]
              ELSE IF callbacks.onSettled # "absent"
                THEN [at EXCEPT !.pc = "onSettledErr", !.err = e,
                                !.log = Append(at.log, "onSettledErr")]
              ELSE [at EXCEPT !.pc = "rejected", !.err = e, !.out = Some(e)])

\* Catch, putting the status back to idle instead of error
CatchBackToIdle(a, at, e) ==
  /\ error' = Some(ErrorMessage(e))
  /\ status' = "idle"
  /\ att' = WithAttempt(a,
       IF callbacks.onError # "absent"
         THEN [at EXCEPT !.pc = "onError", !.err = e, !.log = Append(at.log, "onError")]
       ELSE IF callbacks.onSettled # "absent"
         THEN [at EXCEPT !.pc = "onSettledErr", !.err = e,
                         !.log = Append(at.log, "onSettledErr")]
       ELSE [at EXCEPT !.pc = "rejected", !.err = e, !.out = Some(e)])

\* the catch block of pay() for the caught error e, up to its first await or
\* its throw; at is the invocation as it stood when the error was thrown
Catch(a, at, e) ==
  /\ error' = Some(ErrorMessage(e))
  /\ status' = "error"
  /\ att' = WithAttempt(a,
       IF callbacks.onError # "absent"
         THEN [at EXCEPT !.pc = "onError", !.err = e, !.log = Append(at.log, "onError")]
       ELSE IF callbacks.onSettled # "absent"
         THEN [at EXCEPT !.pc = "onSettledErr", !.err = e,
                         !.log = Append(at.log, "onSettledErr")]
       ELSE [at EXCEPT !.pc = "rejected", !.err = e, !.out = Some(e)])

\* Succeed, writing result and status only for the latest invocation
SucceedIfLatest(a, at, d) ==
  /\ IF a = Len(att)
       THEN result' = Some(d) /\ status' = "success"
       ELSE UNCHANGED <<result, status>>
  /\ att' = WithAttempt(a,
       IF callbacks.onSuccess # "absent"
         THEN [at EXCEPT !.pc = "onSuccess", !.data = Some(d),
                         !.log = Append(at.log, "onSuccess")]
       ELSE IF callbacks.onSettled # "absent"
         THEN [at EXCEPT !.pc = "onSettledOk", !.data = Some(d),
                         !.log = Append(at.log, "onSettledOk")]
       ELSE [at EXCEPT !.pc = "resolved", !.data = Some(d), !.out = Some(d)])

\* the try block of pay() from setResult(data) on, up to its first await or
\* its return
Succeed(a, at, d) ==
  /\ result' = Some(d)
  /\ status' = "success"
  /\ att' = WithAttempt(a,
       IF callbacks.onSuccess # "absent"
         THEN [at EXCEPT !.pc = "onSuccess", !.data = Some(d),
                         !.log = Append(at.log, "onSuccess")]
       ELSE IF callbacks.onSettled # "absent"
         THEN [at EXCEPT !.pc = "onSettledOk", !.data = Some(d),
                         !.log = Append(at.log, "onSettledOk")]
       ELSE [at EXCEPT !.pc = "resolved", !.data = Some(d), !.out = Some(d)])

\* pay, with the wallet check made after setStatus("paying") and without
\* its own setStatus("error")
payChecksWalletLate(selector) ==
  /\ Len(att) < MaxPays
  /\ LET a == Len(att) + 1
         at == [NewAttempt EXCEPT !.sel = SelectorOrDefault(selector)]
     IN  IF walletClient = "none"
           THEN /\ status' = "paying"
                /\ error' = Some(NoWalletMsg)
                /\ att' = Append(att, [at EXCEPT !.pc = "rejected", !.err = NoWalletMsg,
                                                 !.out = Some(NoWalletMsg)])
         ELSE IF walletClient = "noAccount"
           THEN Catch(a, at, NoAccountMsg)
         ELSE /\ status' = "paying"
              /\ error' = None
              /\ att' = Append(att, at)
  /\ UNCHANGED <<result, paymentRequirements, walletClient, url, callbacks, resetInFlight, fetches, selectedRequirement, server, call,
                 hasAccessToStream, renderedStatus, ivs>>

\* pay, clearing the result of the earlier invocations as it starts
payClearsResult(selector) ==
  /\ Len(att) < MaxPays
  /\ result' = None
  /\ LET a == Len(att) + 1
         at == [NewAttempt EXCEPT !.sel = SelectorOrDefault(selector)]
     IN  IF walletClient = "none"
           THEN /\ status' = "error"
                /\ error' = Some(NoWalletMsg)
                /\ att' = Append(att, [at EXCEPT !.pc = "rejected", !.err = NoWalletMsg,
                                                 !.out = Some(NoWalletMsg)])
         ELSE IF walletClient = "noAccount"
           THEN Catch(a, at, NoAccountMsg)
         ELSE /\ status' = "paying"
              /\ error' = None
              /\ att' = Append(att, at)
  /\ UNCHANGED <<paymentRequirements, walletClient, url, callbacks, resetInFlight, fetches, selectedRequirement, server, call,
                 hasAccessToStream, renderedStatus, ivs>>

\* pay, dropping the cached requirements as it starts
payDropsRequirements(selector) ==
  /\ Len(att) < MaxPays
  /\ paymentRequirements' = None
  /\ LET a == Len(att) + 1
         at == [NewAttempt EXCEPT !.sel = SelectorOrDefault(selector)]
     IN  IF walletClient = "none"
           THEN /\ status' = "error"
                /\ error' = Some(NoWalletMsg)
                /\ att' = Append(att, [at EXCEPT !.pc = "rejected", !.err = NoWalletMsg,
                                                 !.out = Some(NoWalletMsg)])
         ELSE IF walletClient = "noAccount"
           THEN Catch(a, at, NoAccountMsg)
         ELSE /\ status' = "paying"
              /\ error' = None
              /\ att' = Append(att, at)
  /\ UNCHANGED <<result, walletClient, url, callbacks, resetInFlight, fetches, selectedRequirement, server, call,
                 hasAccessToStream, renderedStatus, ivs>>

\* pay(selector, callbacks) is invoked: the handler runs to its first await
\* (selector is None when the caller passes none)
pay(selector) ==
  /\ Len(att) < MaxPays
  /\ LET a == Len(att) + 1
         at == [NewAttempt EXCEPT !.sel = SelectorOrDefault(selector)]
     IN  IF walletClient = "none"
           THEN \* the wallet check, ahead of the try block
                /\ status' = "error"
                /\ error' = Some(NoWalletMsg)
                /\ att' = Append(att, [at EXCEPT !.pc = "rejected", !.err = NoWalletMsg,
                                                 !.out = Some(NoWalletMsg)])
         ELSE IF walletClient = "noAccount"
           THEN \* setStatus("paying"), setError(null), then wagmiToClientSigner
                \* throws inside the try block, in the same synchronous run
                Catch(a, at, NoAccountMsg)
         ELSE /\ status' = "paying"
              /\ error' = None
              /\ att' = Append(att, at)
  /\ UNCHANGED <<result, paymentRequirements, walletClient, url, callbacks, resetInFlight, fetches, selectedRequirement, server, call,
                 hasAccessToStream, renderedStatus, ivs>>

\* await fetchWithPayment(url) settles and pay() runs on to its next await:
\* the PAYMENT-RESPONSE header is decoded, the body parsed, response.ok tested
fetchWithPaymentSettles(a) ==
  /\ a \in 1..Len(att)
  /\ att[a].pc = "fetch"
  /\ \E o \in WrapperOutcomes(att[a].sel, Offers(url, server)) :
       IF o.kind = "throw"
         THEN Catch(a, [att[a] EXCEPT !.log = att[a].log \o o.events,
                                      !.offered = o.offered, !.signed = o.signed],
                    o.err) /\ UNCHANGED result /\ hasAccessToStream' = AfterOnError
       ELSE LET at == [att[a] EXCEPT !.log = att[a].log \o o.events,
                                     !.offered = o.offered, !.signed = o.signed,
                                     !.resp = Some(o.resp)]
            IN  IF o.resp.hdr = "invalid"
                  THEN Catch(a, at, HeaderDecodeMsg) /\ UNCHANGED result
                       /\ hasAccessToStream' = AfterOnError
                ELSE IF o.resp.body = "invalid"
                  THEN Catch(a, at, BodyParseMsg) /\ UNCHANGED result
                       /\ hasAccessToStream' = AfterOnError
                ELSE IF ~o.resp.ok
                  THEN Catch(a, at, RequestFailedMsg) /\ UNCHANGED result
                       /\ hasAccessToStream' = AfterOnError
                ELSE Succeed(a, at, a) /\ UNCHANGED error
                     /\ hasAccessToStream' = AfterOnSuccess
  /\ UNCHANGED <<paymentRequirements, walletClient, url, callbacks, resetInFlight, fetches, selectedRequirement, server, call,
                 renderedStatus, ivs>>

\* await callbacks.onSuccess(...) settles
onSuccessSettles(a) ==
  /\ a \in 1..Len(att)
  /\ att[a].pc = "onSuccess"
  /\ IF callbacks.onSuccess = "throws"
       THEN Catch(a, att[a], CallbackMsg) /\ UNCHANGED result
     ELSE /\ att' = [att EXCEPT ![a] =
               IF callbacks.onSettled # "absent"
                 THEN [att[a] EXCEPT !.pc = "onSettledOk",
                                     !.log = Append(att[a].log, "onSettledOk")]
                 ELSE [att[a] EXCEPT !.pc = "resolved", !.out = att[a].data]]
          /\ UNCHANGED <<status, error, result>>
  /\ UNCHANGED <<paymentRequirements, walletClient, url, callbacks, resetInFlight, fetches, selectedRequirement, server, call,
                 hasAccessToStream, renderedStatus, ivs>>

\* await callbacks.onSettled(data, null, ...) settles, then return data
onSettledOkSettles(a) ==
  /\ a \in 1..Len(att)
  /\ att[a].pc = "onSettledOk"
  /\ IF callbacks.onSettled = "throws"
       THEN Catch(a, att[a], CallbackMsg) /\ UNCHANGED result
     ELSE /\ att' = [att EXCEPT ![a] = [att[a] EXCEPT !.pc = "resolved", !.out = att[a].data]]
          /\ UNCHANGED <<status, error, result>>
  /\ UNCHANGED <<paymentRequirements, walletClient, url, callbacks, resetInFlight, fetches, selectedRequirement, server, call,
                 hasAccessToStream, renderedStatus, ivs>>

\* await callbacks.onError(err, ...) settles
onErrorSettles(a) ==
  /\ a \in 1..Len(att)
  /\ att[a].pc = "onError"
  /\ att' = [att EXCEPT ![a] =
       IF callbacks.onError = "throws"
         THEN [att[a] EXCEPT !.pc = "rejected", !.out = Some(CallbackMsg)]
       ELSE IF callbacks.onSettled # "absent"
         THEN [att[a] EXCEPT !.pc = "onSettledErr",
                             !.log = Append(att[a].log, "onSettledErr")]
       ELSE [att[a] EXCEPT !.pc = "rejected", !.out = Some(att[a].err)]]
  /\ UNCHANGED <<status, error, result, paymentRequirements, walletClient, url, callbacks, resetInFlight, fetches, selectedRequirement, server, call,
                 hasAccessToStream, renderedStatus, ivs>>

\* await callbacks.onSettled(undefined, err, ...) settles, then throw err
onSettledErrSettles(a) ==
  /\ a \in 1..Len(att)
  /\ att[a].pc = "onSettledErr"
  /\ att' = [att EXCEPT ![a] =
       IF callbacks.onSettled = "throws"
         THEN [att[a] EXCEPT !.pc = "rejected", !.out = Some(CallbackMsg)]
         ELSE [att[a] EXCEPT !.pc = "rejected", !.out = Some(att[a].err)]]
  /\ UNCHANGED <<status, error, result, paymentRequirements, walletClient, url, callbacks, resetInFlight, fetches, selectedRequirement, server, call,
                 hasAccessToStream, renderedStatus, ivs>>

\* a caller that serializes its invocations: it invokes pay() only when every
\* earlier invocation has settled
paySerialized ==
  /\ \A a \in 1..Len(att) : att[a].pc \in {"resolved", "rejected"}
  /\ pay(None)

(* ---------------------------------------------------------------------- *)
(* reset()                                                                 *)
(* ---------------------------------------------------------------------- *)
\* reset, clearing the fetched requirements as well
resetClearsRequirements ==
  /\ status' = "idle"
  /\ error' = None
  /\ result' = None
  /\ paymentRequirements' = None
  /\ resetInFlight' = (resetInFlight \/ \E a \in 1..Len(att) : att[a].pc = "fetch")
  /\ UNCHANGED <<walletClient, url, callbacks, att, fetches, selectedRequirement, server, call,
                 hasAccessToStream, renderedStatus, ivs>>

\* reset, aborting the invocations that await their request
resetCancels ==
  /\ status' = "idle"
  /\ error' = None
  /\ result' = None
  /\ resetInFlight' = (resetInFlight \/ \E a \in 1..Len(att) : att[a].pc = "fetch")
  /\ att' = [a \in 1..Len(att) |->
       IF att[a].pc = "fetch"
         THEN [att[a] EXCEPT !.pc = "rejected", !.out = Some("aborted")]
         ELSE att[a]]
  /\ UNCHANGED <<paymentRequirements, walletClient, url, callbacks, fetches, selectedRequirement, server, call,
                 hasAccessToStream, renderedStatus, ivs>>

reset ==
  /\ status' = "idle"
  /\ error' = None
  /\ result' = None
  /\ resetInFlight' = (resetInFlight \/ \E a \in 1..Len(att) : att[a].pc = "fetch")
  /\ UNCHANGED <<paymentRequirements, walletClient, url, callbacks, att, fetches, selectedRequirement, server, call,
                 hasAccessToStream, renderedStatus, ivs>>

(* ---------------------------------------------------------------------- *)
(* fetchPaymentRequirements() and the effect that calls it                 *)
(* ---------------------------------------------------------------------- *)
\* what a GET of the url can bring back: a network failure, a response
\* without the PAYMENT-REQUIRED header, a header that does not decode, a
\* header that decodes to a value without accepts, a header with accepts
FetchOutcomes == {"throws", "noHeader", "badHeader", "noAccepts", "accepts"}

\* the value fetchPaymentRequirements stores and returns for an outcome
FetchValue(u, cfg, o) == IF o = "accepts" THEN Some(ServerAccepts(u, cfg)) ELSE None

\* one call of fetchPaymentRequirements: the url it is for, where it stands
\* (pc), what its GET brought back (got) and the value it returned (ret)
Fetch(u, pc, got, ret) == [url |-> u, pc |-> pc, got |-> got, ret |-> ret]

\* changeUrl, with an effect that does not depend on the url
changeUrlOnly(u) ==
  /\ Len(fetches) < MaxFetches
  /\ u # url
  /\ url' = u
  /\ UNCHANGED <<status, error, result, paymentRequirements, walletClient, callbacks, att, resetInFlight, fetches, selectedRequirement, server, call,
                 hasAccessToStream, renderedStatus, ivs>>

\* the hook is re-rendered with another url: the effect starts a fetch
changeUrl(u) ==
  /\ Len(fetches) < MaxFetches
  /\ u # url
  /\ url' = u
  /\ fetches' = Append(fetches, Fetch(u, "fetch", "pending", None))
  /\ UNCHANGED <<status, error, result, paymentRequirements, walletClient, callbacks, att, resetInFlight, selectedRequirement, server, call,
                 hasAccessToStream, renderedStatus, ivs>>

\* the caller invokes the fetchPaymentRequirements the hook returns
fetchPaymentRequirements ==
  /\ Len(fetches) < MaxFetches
  /\ fetches' = Append(fetches, Fetch(url, "fetch", "pending", None))
  /\ UNCHANGED <<status, error, result, paymentRequirements, walletClient, url, callbacks, att, resetInFlight, selectedRequirement, server, call,
                 hasAccessToStream, renderedStatus, ivs>>

\* fetchSettles, storing only a list: the requirements held stay when the
\* call returns null
fetchSettlesKeepsList(i) ==
  /\ i \in 1..Len(fetches)
  /\ fetches[i].pc = "fetch"
  /\ \E o \in FetchOutcomes :
       /\ paymentRequirements' =
            IF o = "accepts" THEN FetchValue(fetches[i].url, server, o)
            ELSE paymentRequirements
       /\ fetches' = [fetches EXCEPT ![i] =
            Fetch(fetches[i].url, "returned", o, FetchValue(fetches[i].url, server, o))]
  /\ UNCHANGED <<status, error, result, walletClient, url, callbacks, att, resetInFlight, selectedRequirement, server, call,
                 hasAccessToStream, renderedStatus, ivs>>

\* fetchSettles, with a network failure rethrown to the caller
fetchSettlesRethrows(i) ==
  /\ i \in 1..Len(fetches)
  /\ fetches[i].pc = "fetch"
  /\ \E o \in FetchOutcomes :
       IF o = "throws"
         THEN /\ fetches' = [fetches EXCEPT ![i] = Fetch(fetches[i].url, "rejected", o, None)]
              /\ UNCHANGED paymentRequirements
       ELSE /\ paymentRequirements' = FetchValue(fetches[i].url, server, o)
            /\ fetches' = [fetches EXCEPT ![i] =
                 Fetch(fetches[i].url, "returned", o, FetchValue(fetches[i].url, server, o))]
  /\ UNCHANGED <<status, error, result, walletClient, url, callbacks, att, resetInFlight, selectedRequirement, server, call,
                 hasAccessToStream, renderedStatus, ivs>>

\* await fetch(url) settles and fetchPaymentRequirements runs to its return
fetchSettles(i) ==
  /\ i \in 1..Len(fetches)
  /\ fetches[i].pc = "fetch"
  /\ \E o \in FetchOutcomes :
       /\ paymentRequirements' = FetchValue(fetches[i].url, server, o)
       /\ fetches' = [fetches EXCEPT ![i] =
            Fetch(fetches[i].url, "returned", o, FetchValue(fetches[i].url, server, o))]
  /\ UNCHANGED <<status, error, result, walletClient, url, callbacks, att, resetInFlight, selectedRequirement, server, call,
                 hasAccessToStream, renderedStatus, ivs>>

(* ---------------------------------------------------------------------- *)
(* The wallet                                                              *)
(* ---------------------------------------------------------------------- *)
\* the wallet connects or disconnects and the hook is re-rendered
walletChanges(w) ==
  /\ w # walletClient
  /\ walletClient' = w
  /\ UNCHANGED <<status, error, result, paymentRequirements, url, callbacks, att, resetInFlight, fetches, selectedRequirement, server, call,
                 hasAccessToStream, renderedStatus, ivs>>

(* ---------------------------------------------------------------------- *)
(* The page (app/payment/builder/page.tsx) and the resource server         *)
(* ---------------------------------------------------------------------- *)
\* the effect that selects the first option once the requirements are loaded
autoSelect ==
  /\ paymentRequirements # None
  /\ Len(paymentRequirements[1]) > 0
  /\ selectedRequirement = None
  /\ selectedRequirement' = Some(paymentRequirements[1][1])
  /\ UNCHANGED <<status, error, result, paymentRequirements, walletClient, url, callbacks,
                 att, resetInFlight, fetches, server, call,
                 hasAccessToStream, renderedStatus, ivs>>

\* the user clicks the i-th option PaymentRequirementSelector lists
onSelect(i) ==
  /\ paymentRequirements # None
  /\ i \in 1..Len(paymentRequirements[1])
  /\ selectedRequirement # Some(paymentRequirements[1][i])
  /\ selectedRequirement' = Some(paymentRequirements[1][i])
  /\ UNCHANGED <<status, error, result, paymentRequirements, walletClient, url, callbacks,
                 att, resetInFlight, fetches, server, call,
                 hasAccessToStream, renderedStatus, ivs>>

\* the user clicks Pay: handlePayment runs to the await of pay(), and pay()
\* to its first await
handlePayment ==
  /\ selectedRequirement # None
  /\ pay(Some(RequirementSel(selectedRequirement[1])))

\* React commits a render of the page: the button's disabled attribute and
\* label follow the status of the hook
render ==
  /\ renderedStatus # status
  /\ renderedStatus' = status
  /\ UNCHANGED <<status, error, result, paymentRequirements, walletClient, url, callbacks,
                 att, resetInFlight, fetches, selectedRequirement, server, call,
                 hasAccessToStream, ivs>>

\* a click on the Pay button as last rendered: the button is there when the
\* paywall is shown and the wallet connected, and clicks reach handlePayment
\* unless it was rendered disabled
clickPay ==
  /\ ~hasAccessToStream
  /\ walletClient # "none"
  /\ renderedStatus # "paying"
  /\ handlePayment

\* the resource server is redeployed with another route configuration
serverChanges(cfg) ==
  /\ cfg # server
  /\ server' = cfg
  /\ UNCHANGED <<status, error, result, paymentRequirements, walletClient, url, callbacks,
                 att, resetInFlight, fetches, selectedRequirement, call,
                 hasAccessToStream, renderedStatus, ivs>>

(* ---------------------------------------------------------------------- *)
(* A selector called on its own                                            *)
(* ---------------------------------------------------------------------- *)
\* selector(version, accepts) runs and returns or throws
callSelector ==
  /\ call.ret = None
  /\ call' = [call EXCEPT !.ret = Some(Select(call.selector, call.accepts))]
  /\ UNCHANGED <<status, error, result, paymentRequirements, walletClient, url, callbacks,
                 att, resetInFlight, fetches, selectedRequirement, server,
                 hasAccessToStream, renderedStatus, ivs>>

(* ---------------------------------------------------------------------- *)
(* The balance check of the payment page                                   *)
(* ---------------------------------------------------------------------- *)
\* the significant decimal digits a float keeps
FloatDigits == 3

\* requirements whose amount is not a string of digits ("1.5": the code -1
\* stands for the point) or is the empty string
R1Fractional == [R1 EXCEPT !.amount = <<1, -1, 5>>]
R1NoAmount == [R1 EXCEPT !.amount = <<>>]

\* BigInt(s) throws a SyntaxError
BigIntThrows(s) == \E i \in 1..Len(s) : s[i] \notin 0..9

\* one result of useReadContracts
ReadResult(st, v) == [status |-> st, result |-> v]

RECURSIVE Digits(_)
Digits(n) == IF n < 10 THEN 1 ELSE 1 + Digits(n \div 10)

RECURSIVE Pow10(_)
Pow10(k) == IF k = 0 THEN 1 ELSE 10 * Pow10(k - 1)

\* formatUnits(value, decimals): the decimal string of value / 10^decimals,
\* kept as the pair it denotes
formatUnits(value, decimals) == [units |-> value, decimals |-> decimals]

\* Number.parseFloat of such a string: the nearest float, which keeps
\* FloatDigits significant digits
parseFloat(str) ==
  LET k == Digits(str.units)
      scale == IF k > FloatDigits THEN Pow10(k - FloatDigits) ELSE 1
  IN  [str EXCEPT !.units = ((str.units + scale \div 2) \div scale) * scale]

\* a >= b on two floats of the same number of decimals
FloatGeq(a, b) == a.units >= b.units

\* selectedRequirement.amount || selectedRequirement.value || "0"
requiredAmount(req) == IF Len(req.amount) = 0 THEN <<0>> ELSE req.amount

\* the balance check, blocking the payment when a lookup did not succeed
hasSufficientBalanceFailsClosed(selected, selectedTokenData) ==
  IF selected = None \/ selectedTokenData = None \/ Len(selectedTokenData[1]) < 2 THEN TRUE
  ELSE LET decimalsResult == selectedTokenData[1][1]
           balanceResult == selectedTokenData[1][2]
       IN  IF decimalsResult.status # "success" \/ balanceResult.status # "success"
             THEN FALSE
           ELSE IF BigIntThrows(requiredAmount(selected[1])) THEN TRUE
           ELSE FloatGeq(parseFloat(formatUnits(balanceResult.result, decimalsResult.result)),
                         parseFloat(formatUnits(BigInt(requiredAmount(selected[1])),
                                                decimalsResult.result)))

\* hasSufficientBalance of the page
hasSufficientBalance(selected, selectedTokenData) ==
  IF selected = None \/ selectedTokenData = None \/ Len(selectedTokenData[1]) < 2 THEN TRUE
  ELSE LET decimalsResult == selectedTokenData[1][1]
           balanceResult == selectedTokenData[1][2]
           decimals == IF decimalsResult.status = "success"
                         THEN Some(decimalsResult.result) ELSE None
           balanceRaw == IF balanceResult.status = "success"
                           THEN Some(balanceResult.result) ELSE None
       IN  IF decimals = None \/ balanceRaw = None THEN TRUE
           ELSE IF BigIntThrows(requiredAmount(selected[1])) THEN TRUE
           ELSE LET balance == formatUnits(balanceRaw[1], decimals[1])
                    requiredAmountFormatted ==
                      formatUnits(BigInt(requiredAmount(selected[1])), decimals[1])
                IN  FloatGeq(parseFloat(balance), parseFloat(requiredAmountFormatted))

\* the page computes hasSufficientBalance from its selection and token data
checkBalance ==
  /\ "tokenData" \in DOMAIN call
  /\ call.ret = None
  /\ call' = [call EXCEPT !.ret = Some(hasSufficientBalance(selectedRequirement, call.tokenData))]
  /\ UNCHANGED <<status, error, result, paymentRequirements, walletClient, url, callbacks,
                 att, resetInFlight, fetches, selectedRequirement, server,
                 hasAccessToStream, renderedStatus, ivs>>

(* ---------------------------------------------------------------------- *)
(* The video player (components/IVSPlayer.tsx)                             *)
(* ---------------------------------------------------------------------- *)
\* the runs of the player effect one component instance may make
MaxEffects == 3

\* what the dynamic import of the SDK can bring: an SDK that supports the
\* browser, one that does not, a rejection
ImportOutcomes == {"supported", "unsupported", "rejects"}

\* one run of the player effect: where its initPlayer stands, whether its
\* cleanup has run, whether its import settled after its cleanup (late), the
\* player it created, and the intervals and the video-element listeners it
\* registered
NewEffect == [pc |-> "import", cleaned |-> FALSE, late |-> FALSE, player |-> "none",
              intervals |-> "none", listeners |-> "none"]

\* the component as mounted: videoRef.current is set, playerRef.current is
\* null and the effect has run for the first playbackUrl
MountedPlayer == [mounted |-> TRUE, playerRef |-> None, effects |-> <<NewEffect>>]

\* clearInterval / removeEventListener on what the effect has registered
Released(x) == IF x = "active" THEN "cleared" ELSE x

\* the cleanup the effect returns, for run e: it clears the intervals and the
\* listeners run e has registered so far, and deletes the player that
\* playerRef.current holds
Cleanup(s, e) ==
  LET own == [s.effects[e] EXCEPT !.cleaned = TRUE,
                                  !.intervals = Released(@),
                                  !.listeners = Released(@)]
      effs == [s.effects EXCEPT ![e] = own]
  IN  [s EXCEPT !.effects = IF s.playerRef # None
                              THEN [effs EXCEPT ![s.playerRef[1]].player = "deleted"]
                              ELSE effs,
                !.playerRef = None]

\* the import of run e settles and initPlayer runs to its end; nothing tells
\* it whether the cleanup of its run has run
importSettles(e, o) ==
  /\ e \in 1..Len(ivs.effects)
  /\ ivs.effects[e].pc = "import"
  /\ ivs' = IF o = "supported" /\ ivs.mounted
              THEN [ivs EXCEPT !.playerRef = Some(e),
                               !.effects[e] = [@ EXCEPT !.pc = "done",
                                                        !.late = ivs.effects[e].cleaned,
                                                        !.player = "created",
                                                        !.intervals = "active",
                                                        !.listeners = "active"]]
            ELSE [ivs EXCEPT !.effects[e] = [@ EXCEPT !.pc = "done",
                                                      !.late = ivs.effects[e].cleaned]]
  /\ UNCHANGED <<status, error, result, paymentRequirements, walletClient, url, callbacks,
                 att, resetInFlight, fetches, selectedRequirement, server, call,
                 hasAccessToStream, renderedStatus>>

\* the component is re-rendered with another playbackUrl: the cleanup of the
\* last run, then the effect again
playbackUrlChanges ==
  /\ ivs.mounted
  /\ Len(ivs.effects) < MaxEffects
  /\ LET cleaned == Cleanup(ivs, Len(ivs.effects))
     IN  ivs' = [cleaned EXCEPT !.effects = Append(@, NewEffect)]
  /\ UNCHANGED <<status, error, result, paymentRequirements, walletClient, url, callbacks,
                 att, resetInFlight, fetches, selectedRequirement, server, call,
                 hasAccessToStream, renderedStatus>>

\* the component unmounts: the video element goes, with the listeners on it,
\* videoRef.current is null from then on, and the cleanup of the last run runs
unmount ==
  /\ ivs.mounted
  /\ LET cleaned == Cleanup(ivs, Len(ivs.effects))
     IN  ivs' = [cleaned EXCEPT
                   !.mounted = FALSE,
                   !.effects = [e \in DOMAIN @ |-> [@[e] EXCEPT !.listeners = Released(@)]]]
  /\ UNCHANGED <<status, error, result, paymentRequirements, walletClient, url, callbacks,
                 att, resetInFlight, fetches, selectedRequirement, server, call,
                 hasAccessToStream, renderedStatus>>

(* ---------------------------------------------------------------------- *)
(* Specifications                                                          *)
(* ---------------------------------------------------------------------- *)
\* no selector is called on its own
NoCall == [selector |-> DefaultSel, accepts |-> None, ret |-> None]

\* the url the page passes to the hook
InitialUrl == "/api/stream/access"

\* the hook after its first render and effects: no wallet client yet, the
\* fetch for the url is out
Init ==
  /\ status = "idle"
  /\ error = None
  /\ result = None
  /\ paymentRequirements = None
  /\ walletClient = "none"
  /\ url = InitialUrl
  /\ callbacks \in CallbackSets
  /\ att = <<>>
  /\ resetInFlight = FALSE
  /\ fetches = <<Fetch(url, "fetch", "pending", None)>>
  /\ selectedRequirement = None
  /\ server = "deployed"
  /\ call = NoCall
  /\ hasAccessToStream = FALSE
  /\ renderedStatus = "idle"
  /\ ivs = NoPlayer

PayNext ==
  \/ pay(None)
  \/ \E a \in 1..MaxPays : fetchWithPaymentSettles(a)
  \/ \E a \in 1..MaxPays : onSuccessSettles(a)
  \/ \E a \in 1..MaxPays : onSettledOkSettles(a)
  \/ \E a \in 1..MaxPays : onErrorSettles(a)
  \/ \E a \in 1..MaxPays : onSettledErrSettles(a)
  \/ reset
  \/ \E w \in WalletStates : walletChanges(w)

FetchNext ==
  \/ \E u \in Urls : changeUrl(u)
  \/ fetchPaymentRequirements
  \/ \E i \in 1..MaxFetches : fetchSettles(i)

\* pay() and reset() on the mounted hook, whatever callbacks are passed
SpecPay == Init /\ [][PayNext]_vars

\* every awaited request (the network calls and the signer) and every awaited
\* callback of an invocation of pay() eventually completes
PaySettles ==
  \A a \in 1..MaxPays :
    /\ WF_vars(fetchWithPaymentSettles(a))
    /\ WF_vars(onSuccessSettles(a))
    /\ WF_vars(onSettledOkSettles(a))
    /\ WF_vars(onErrorSettles(a))
    /\ WF_vars(onSettledErrSettles(a))

FairPay == SpecPay /\ PaySettles

\* pay() and reset() while the fetch of the requirements settles, with
\* callbacks that all return
InitReset == Init /\ callbacks = AllReturn

SpecReset == InitReset /\ [][PayNext \/ \E i \in 1..MaxFetches : fetchSettles(i)]_vars

SpecFetch == Init /\ [][FetchNext]_vars

\* pay() invoked by a caller that serializes, with reset() at any point
SerialNext ==
  \/ paySerialized
  \/ \E a \in 1..MaxPays : fetchWithPaymentSettles(a)
  \/ \E a \in 1..MaxPays : onSuccessSettles(a)
  \/ \E a \in 1..MaxPays : onSettledOkSettles(a)
  \/ \E a \in 1..MaxPays : onErrorSettles(a)
  \/ \E a \in 1..MaxPays : onSettledErrSettles(a)
  \/ reset
  \/ \E w \in WalletStates : walletChanges(w)

SpecSerial == Init /\ [][SerialNext]_vars

\* a caller that refetches the requirements while its payments, one at a
\* time, are under way
RefetchNext ==
  \/ paySerialized
  \/ \E a \in 1..MaxPays : fetchWithPaymentSettles(a)
  \/ \E a \in 1..MaxPays : onSuccessSettles(a)
  \/ \E a \in 1..MaxPays : onSettledOkSettles(a)
  \/ \E a \in 1..MaxPays : onErrorSettles(a)
  \/ \E a \in 1..MaxPays : onSettledErrSettles(a)
  \/ fetchPaymentRequirements
  \/ \E i \in 1..MaxFetches : fetchSettles(i)

InitRefetch ==
  /\ status = "idle"
  /\ error = None
  /\ result = None
  /\ paymentRequirements = None
  /\ walletClient = "connected"
  /\ url = InitialUrl
  /\ callbacks = AllReturn
  /\ att = <<>>
  /\ resetInFlight = FALSE
  /\ fetches = <<Fetch(url, "fetch", "pending", None)>>
  /\ selectedRequirement = None
  /\ server = "deployed"
  /\ call = NoCall
  /\ hasAccessToStream = FALSE
  /\ renderedStatus = "idle"
  /\ ivs = NoPlayer

SpecRefetch == InitRefetch /\ [][RefetchNext]_vars

\* the page: its hook is mounted with the page's callbacks, the user selects
\* and pays, the server may be redeployed
PageNext ==
  \/ \E i \in 1..MaxFetches : fetchSettles(i)
  \/ autoSelect
  \/ \E i \in 1..MaxAccepts : onSelect(i)
  \/ handlePayment
  \/ \E a \in 1..MaxPays : fetchWithPaymentSettles(a)
  \/ \E a \in 1..MaxPays : onSuccessSettles(a)
  \/ \E a \in 1..MaxPays : onErrorSettles(a)
  \/ \E w \in WalletStates : walletChanges(w)
  \/ \E cfg \in ServerConfigs : serverChanges(cfg)

InitPage ==
  /\ status = "idle"
  /\ error = None
  /\ result = None
  /\ paymentRequirements = None
  /\ walletClient = "none"
  /\ url = InitialUrl
  /\ callbacks = PageCallbacks
  /\ att = <<>>
  /\ resetInFlight = FALSE
  /\ fetches = <<Fetch(url, "fetch", "pending", None)>>
  /\ selectedRequirement = None
  /\ server = "deployed"
  /\ call = NoCall
  /\ hasAccessToStream = FALSE
  /\ renderedStatus = "idle"
  /\ ivs = NoPlayer

SpecPage == InitPage /\ [][PageNext]_vars

\* the page as the user sees it: clicks act on the last render
ButtonNext ==
  \/ \E i \in 1..MaxFetches : fetchSettles(i)
  \/ autoSelect
  \/ \E i \in 1..MaxAccepts : onSelect(i)
  \/ clickPay
  \/ render
  \/ \E a \in 1..MaxPays : fetchWithPaymentSettles(a)
  \/ \E a \in 1..MaxPays : onSuccessSettles(a)
  \/ \E a \in 1..MaxPays : onErrorSettles(a)
  \/ \E w \in WalletStates : walletChanges(w)

SpecButton == InitPage /\ [][ButtonNext]_vars

\* a selector called on its own, on every accepts argument up to MaxAccepts
\* requirements long
AcceptsArguments ==
  {None} \cup {Some(l) : l \in UNION {[1..n -> Requirements] : n \in 0..MaxAccepts}}

InitSelect ==
  /\ status = "idle"
  /\ error = None
  /\ result = None
  /\ paymentRequirements = None
  /\ walletClient = "none"
  /\ url = InitialUrl
  /\ callbacks = NoCallbacks
  /\ att = <<>>
  /\ resetInFlight = FALSE
  /\ fetches = <<Fetch(url, "fetch", "pending", None)>>
  /\ selectedRequirement = None
  /\ server = "deployed"
  /\ call \in [selector : Selectors, accepts : AcceptsArguments, ret : {None}]
  /\ hasAccessToStream = FALSE
  /\ renderedStatus = "idle"
  /\ ivs = NoPlayer

SpecSelect == InitSelect /\ [][callSelector]_vars

\* the balance check computed once, on every selection and token data
DecimalsResults ==
  {ReadResult(st, d) : st \in {"success", "failure"}, d \in {0, 6}}

BalanceResults ==
  {ReadResult(st, b) : st \in {"success", "failure"},
                       b \in {0, 8990, 8999, 9000, 9994, 9996, 10000, 10001}}

TokenData ==
  {None, Some(<<>>)} \cup {Some(<<d>>) : d \in DecimalsResults}
    \cup {Some(<<d, b>>) : d \in DecimalsResults, b \in BalanceResults}

Selections == {None} \cup {Some(r) : r \in {R1, R1Cheaper, R1Fractional, R1NoAmount}}

InitBalance ==
  /\ status = "idle"
  /\ error = None
  /\ result = None
  /\ paymentRequirements = None
  /\ walletClient = "connected"
  /\ url = InitialUrl
  /\ callbacks = PageCallbacks
  /\ att = <<>>
  /\ resetInFlight = FALSE
  /\ fetches = <<Fetch(url, "fetch", "pending", None)>>
  /\ selectedRequirement \in Selections
  /\ server = "deployed"
  /\ call \in [tokenData : TokenData, ret : {None}]
  /\ hasAccessToStream = FALSE
  /\ renderedStatus = "idle"
  /\ ivs = NoPlayer

SpecBalance == InitBalance /\ [][checkBalance]_vars

\* the player of a page that has been paid for
PlayerNext ==
  \/ \E e \in 1..MaxEffects, o \in ImportOutcomes : importSettles(e, o)
  \/ playbackUrlChanges
  \/ unmount

InitPlayer ==
  /\ status = "success"
  /\ error = None
  /\ result = Some(1)
  /\ paymentRequirements = None
  /\ walletClient = "connected"
  /\ url = InitialUrl
  /\ callbacks = PageCallbacks
  /\ att = <<>>
  /\ resetInFlight = FALSE
  /\ fetches = <<Fetch(url, "fetch", "pending", None)>>
  /\ selectedRequirement = None
  /\ server = "deployed"
  /\ call = NoCall
  /\ hasAccessToStream = TRUE
  /\ renderedStatus = "success"
  /\ ivs = MountedPlayer

SpecPlayer == InitPlayer /\ [][PlayerNext]_vars

\* everything together
Next == PayNext \/ FetchNext \/ PageNext \/ ButtonNext \/ callSelector \/ checkBalance \/ PlayerNext

Spec == Init /\ [][Next]_vars

(* ---------------------------------------------------------------------- *)
(* Properties                                                              *)
(* ---------------------------------------------------------------------- *)
Range(f) == {f[i] : i \in DOMAIN f}

Invocations == 1..Len(att)

\* the invocations that are suspended at an await
InFlight == {a \in Invocations : att[a].pc \notin {"resolved", "rejected"}}

\* the transitions of the state machine as stated
StatedTransitions ==
  {<<"idle", "paying">>, <<"paying", "success">>, <<"paying", "error">>,
   <<"success", "idle">>, <<"error", "idle">>,
   <<"success", "paying">>, <<"error", "paying">>}

\* C1 as stated: every change of status is idle -> paying, paying -> success,
\* paying -> error, success|error -> idle or success|error -> paying.
C1_OnlyStatedTransitions ==
  [][status' # status => <<status, status'>> \in StatedTransitions]_vars

\* C1 as amended: every change of status is made by one of four steps, from
\* whatever the status then is: pay() invoked with a connected wallet client
\* sets paying; pay() invoked without a usable wallet client sets error (so
\* idle -> error happens); a step of an invocation in flight sets success
\* (its response arrived) or error (its request failed or a callback threw);
\* reset() sets idle and clears error and result. Nothing but reset() sets
\* idle.
C1_StatusChanges ==
  [][status' # status =>
       \/ /\ status' = "paying"
          /\ walletClient = "connected"
          /\ Len(att') = Len(att) + 1
          /\ att'[Len(att')].pc = "fetch"
       \/ /\ status' = "error"
          /\ walletClient # "connected"
          /\ Len(att') = Len(att) + 1
       \/ /\ status' = "success"
          /\ \E a \in Invocations :
               /\ att[a].pc = "fetch"
               /\ att'[a].pc \in {"onSuccess", "onSettledOk", "resolved"}
       \/ /\ status' = "error"
          /\ \E a \in Invocations :
               /\ att[a].pc \in {"fetch", "onSuccess", "onSettledOk"}
               /\ att'[a].pc \in {"onError", "onSettledErr", "rejected"}
       \/ /\ status' = "idle"
          /\ att' = att
          /\ error' = None
          /\ result' = None]_vars

\* the first pay() was made without a wallet client and took status from
\* idle to error
C1_Witness ==
  /\ Len(att) = 1
  /\ att[1].out = Some(NoWalletMsg)
  /\ status = "error"
  /\ ~resetInFlight

\* C2: pay() invoked while there is no wallet client rejects with the
\* no-wallet error, issues no request and makes no call, and leaves status at
\* error, never paying.
C2_NoWalletClient ==
  [][(walletClient = "none" /\ Len(att') = Len(att) + 1) =>
       LET at == att'[Len(att')]
       IN  /\ at.pc = "rejected"
           /\ at.out = Some(NoWalletMsg)
           /\ at.log = <<>>
           /\ at.resp = None
           /\ status' = "error"
           /\ error' = Some(NoWalletMsg)
           /\ result' = result]_vars

\* a second pay(), made after the wallet disconnected, was rejected; the
\* result of the first is still there
C2_Witness ==
  /\ Len(att) >= 2
  /\ att[1].pc = "resolved"
  /\ att[2].pc = "rejected"
  /\ att[2].out = Some(NoWalletMsg)
  /\ att[2].log = <<>>
  /\ status = "error"
  /\ error = Some(NoWalletMsg)
  /\ result = Some(1)

\* the callbacks a successful invocation makes, in order
SuccessCalls ==
  (IF callbacks.onSuccess # "absent" THEN <<"onSuccess">> ELSE <<>>)
    \o (IF callbacks.onSettled # "absent" THEN <<"onSettledOk">> ELSE <<>>)

\* the calls fetchWithPayment makes
WrapperCalls == {"request", "select", "sign", "retry"}

\* the callbacks an invocation has called so far, in order
Called(a) == SelectSeq(att[a].log, LAMBDA c : c \notin WrapperCalls)

\* C3 as stated: an invocation whose final response was ok and whose body
\* parsed calls onSuccess and then onSettled(data, null), never onError, and
\* resolves with the parsed body.
C3_SuccessResolves ==
  \A a \in Invocations :
    att[a].data # None =>
      /\ att[a].pc \in {"onSuccess", "onSettledOk", "resolved"}
      /\ "onError" \notin Range(att[a].log)
      /\ att[a].pc = "resolved" =>
           /\ att[a].out = att[a].data
           /\ Called(a) = SuccessCalls

\* C4 as stated: every invocation that failed, the one without a wallet
\* client included, has called onError and then onSettled(undefined, err)
\* when they were supplied, and rejects with the failure it caught.
C4_FailureCallsBack ==
  \A a \in Invocations :
    att[a].pc = "rejected" =>
      /\ callbacks.onError # "absent" => "onError" \in Range(att[a].log)
      /\ callbacks.onSettled # "absent" => "onSettledErr" \in Range(att[a].log)
      /\ att[a].out = Some(att[a].err)

\* C5 as stated: a final response that is ok with a body that parses ends in
\* success, whatever the PAYMENT-RESPONSE header is.
C5_HeaderIsBestEffort ==
  \A a \in Invocations :
    (/\ att[a].resp # None
     /\ att[a].resp[1].ok
     /\ att[a].resp[1].body = "json") => att[a].data # None

\* C6 as stated: a retried response that is not ok fails the invocation with
\* the request-failed error, whatever its body, and result is not written.
C6_NotOkIsRequestFailed ==
  \A a \in Invocations :
    (/\ att[a].resp # None
     /\ "retry" \in Range(att[a].log)
     /\ ~att[a].resp[1].ok) =>
      /\ att[a].err = RequestFailedMsg
      /\ att[a].data = None

\* C7: reset() sets status to idle, error and result to null, and leaves
\* paymentRequirements (and every invocation) as it was.
C7_Reset ==
  [][reset =>
       /\ status' = "idle"
       /\ error' = None
       /\ result' = None
       /\ paymentRequirements' = paymentRequirements]_vars

\* reset() ran after a failed pay(), with requirements fetched
C7_Witness ==
  /\ status = "idle"
  /\ error = None
  /\ result = None
  /\ paymentRequirements = Some(AcceptsOf(url))
  /\ \E a \in Invocations : att[a].pc = "rejected" /\ att[a].err = RequestFailedMsg

\* C8: reset() does not touch the invocations in flight; an invocation that
\* awaits its request can always complete, and when it completes after a
\* reset() (status idle) it writes status, and result or error, as usual and
\* goes on to its callbacks.
C8_ResetDoesNotCancel ==
  /\ [][reset => att' = att]_vars
  /\ [](\A a \in Invocations : att[a].pc = "fetch" => ENABLED fetchWithPaymentSettles(a))
  /\ [][\A a \in Invocations :
          (status = "idle" /\ att[a].pc = "fetch" /\ att'[a].pc # "fetch") =>
            \/ /\ status' = "success"
               /\ result' = Some(a)
               /\ att'[a].data = Some(a)
               /\ callbacks.onSuccess # "absent" => "onSuccess" \in Range(att'[a].log)
            \/ /\ status' = "error"
               /\ error' = Some(ErrorMessage(att'[a].err))
               /\ callbacks.onError # "absent" => "onError" \in Range(att'[a].log)]_vars

\* the only pay() was reset while it awaited its request, then completed:
\* status and result are its writes, its callbacks were called
C8_Witness ==
  /\ resetInFlight
  /\ Len(att) = 1
  /\ att[1].pc = "resolved"
  /\ callbacks = AllReturn
  /\ Called(1) = <<"onSuccess", "onSettledOk">>
  /\ status = "success"
  /\ result = Some(1)

\* C9: pay() is accepted while another invocation is paying, and every
\* invocation, whatever the status when its request completes, writes status
\* and result (success) or status and error (failure): the values left are
\* those of the invocation that completed last.
C9_OverlappingPaysOverwrite ==
  /\ [](Len(att) < MaxPays => ENABLED pay(None))
  /\ [][\A a \in Invocations :
          (att[a].pc = "fetch" /\ att'[a].pc # "fetch") =>
            IF att'[a].data # None
              THEN status' = "success" /\ result' = att'[a].data /\ error' = error
              ELSE /\ status' = "error"
                   /\ error' = Some(ErrorMessage(att'[a].err))
                   /\ result' = result]_vars

\* two invocations overlapped and the first one completed last: the result
\* is the first one's
C9_Witness ==
  /\ Len(att) >= 2
  /\ att[1].pc = "resolved"
  /\ att[2].pc = "resolved"
  /\ status = "success"
  /\ result = Some(1)

\* C10 as stated: once every fetch has returned, paymentRequirements is the
\* value a fetch of the current url returned.
C10_LastTargetWins ==
  (\A i \in 1..Len(fetches) : fetches[i].pc = "returned") =>
    paymentRequirements \in
      {fetches[i].ret : i \in {j \in 1..Len(fetches) : fetches[j].url = url}}

(* ---------------------------------------------------------------------- *)
(* Selectors                                                               *)
(* ---------------------------------------------------------------------- *)
\* the selector call has returned or thrown
SelectorCalled == call.ret # None

\* the list the selector was called with, and the outcome of the call
CalledWith == call.accepts[1]
Outcome == call.ret[1]

\* the amount of a requirement as an integer
AmountOf(r) == BigInt(r.amount)

\* C12: selectCheapestOption, called with a non-empty list, returns an element
\* whose amount, taken as an integer, is the minimum of the list, and among
\* the elements with the minimum amount the one with the smallest index
C12_CheapestIsEarliestMinimum ==
  (SelectorCalled /\ call.selector = CheapestSel /\ ~NoOptions(call.accepts)) =>
    /\ Outcome.ok
    /\ \E i \in 1..Len(CalledWith) :
         /\ Outcome.req = CalledWith[i]
         /\ \A j \in 1..Len(CalledWith) : AmountOf(CalledWith[i]) <= AmountOf(CalledWith[j])
         /\ \A j \in 1..(i - 1) : AmountOf(CalledWith[i]) < AmountOf(CalledWith[j])

\* the cheapest amount is shared by the second and third elements, which
\* differ, and has fewer digits than the first; the second is returned
C12_Witness ==
  /\ SelectorCalled
  /\ call.selector = CheapestSel
  /\ call.accepts = Some(<<R1, R2Cheaper, R1Cheaper>>)
  /\ Outcome = Returns(R2Cheaper)

\* C13: selectFirstOption and the default selector of pay(), called with a
\* non-empty list, return its first element
C13_FirstOptionIsHead ==
  (SelectorCalled /\ call.selector \in {FirstSel, DefaultSel} /\ ~NoOptions(call.accepts)) =>
    (Outcome.ok /\ Outcome.req = CalledWith[1])

C13_Witness ==
  /\ SelectorCalled
  /\ call.selector = FirstSel
  /\ call.accepts = Some(<<R2, R1Cheaper, R1>>)
  /\ Outcome = Returns(R2)

\* C14: every selector, called with an empty or a missing accepts, throws the
\* error "No payment options available" whatever its factory was given, and
\* returns nothing
C14_NoOptionsAvailable ==
  (SelectorCalled /\ NoOptions(call.accepts)) =>
    (~Outcome.ok /\ Outcome.err = NoOptionsMsg)

C14_Witness ==
  /\ SelectorCalled
  /\ call.selector = NetworkSel(8453)
  /\ call.accepts = Some(<<>>)
  /\ Outcome = Throws(NoOptionsMsg)

\* the indexes of the entries of the list on network n
OnNetwork(n) == {i \in 1..Len(CalledWith) : CalledWith[i].network = n}

\* C15: the selector made for a chain id, called with a non-empty list,
\* returns the entry of lowest index whose network is "eip155:<chainId>", and
\* throws its no-match error when no entry is on that network
C15_ByNetwork ==
  (SelectorCalled /\ call.selector.kind = "selectForCurrentNetwork" /\ ~NoOptions(call.accepts)) =>
    LET on == OnNetwork(Eip155(call.selector.chainId))
    IN  IF on = {}
          THEN ~Outcome.ok /\ Outcome.err = NoNetworkOptionMsg(call.selector.chainId)
          ELSE /\ Outcome.ok
               /\ \E i \in on : Outcome.req = CalledWith[i] /\ \A j \in on : i <= j

\* two entries are on Base, behind one that is not: the first of the two is
\* returned
C15_Witness ==
  /\ SelectorCalled
  /\ call.selector = NetworkSel(8453)
  /\ call.accepts = Some(<<R1, R2Cheaper, R2>>)
  /\ Outcome = Returns(R2Cheaper)

\* the four fields createSelectByRequirement compares
Pinned(r) == <<r.network, r.asset, r.amount, r.payTo>>

\* the indexes of the entries of the list that agree with r on the four
Matching(r) == {i \in 1..Len(CalledWith) : Pinned(CalledWith[i]) = Pinned(r)}

\* C16: the selector made for a selected requirement, called with a non-empty
\* list, returns the entry of lowest index whose network, asset, amount and
\* payTo equal the selected requirement's, whatever its other fields, and
\* throws its not-found error when no entry agrees on all four
C16_ByRequirement ==
  (SelectorCalled /\ call.selector.kind = "selectByRequirement" /\ ~NoOptions(call.accepts)) =>
    LET matching == Matching(call.selector.pinned)
    IN  IF matching = {}
          THEN ~Outcome.ok /\ Outcome.err = NotFoundMsg
          ELSE /\ Outcome.ok
               /\ \E i \in matching : Outcome.req = CalledWith[i] /\ \A j \in matching : i <= j

\* the entry returned differs from the selected requirement in its scheme
\* and stands before the selected requirement itself
C16_Witness ==
  /\ SelectorCalled
  /\ call.selector = RequirementSel(R1)
  /\ call.accepts = Some(<<R1Padded, R1Upto, R1>>)
  /\ Outcome = Returns(R1Upto)

(* ---------------------------------------------------------------------- *)
(* The page                                                                *)
(* ---------------------------------------------------------------------- *)
\* no entry of the list agrees with r on network, asset, amount and payTo
NoEntryFor(r, accepts) ==
  \A i \in 1..Len(accepts) : Pinned(accepts[i]) # Pinned(r)

\* C11: a pay() the page starts is given the selector made for the
\* requirement selected at that moment; whatever its signer is handed then
\* has the network, asset, amount and payTo of that requirement; and when
\* the list the server offers has no such entry, the invocation fails with
\* nothing signed and no request retried
C11_SelectionPinned ==
  /\ [][Len(att') > Len(att) =>
         att'[Len(att')].sel = RequirementSel(selectedRequirement[1])]_vars
  /\ [](\A a \in Invocations :
         /\ att[a].sel.kind = "selectByRequirement"
         /\ ("sign" \in Range(att[a].log)) = (att[a].signed # None)
         /\ att[a].signed # None =>
              Pinned(att[a].signed[1]) = Pinned(att[a].sel.pinned)
         /\ (att[a].offered # None /\ NoEntryFor(att[a].sel.pinned, att[a].offered[1])) =>
              /\ att[a].signed = None
              /\ "sign" \notin Range(att[a].log)
              /\ "retry" \notin Range(att[a].log)
              /\ att[a].pc \in {"onError", "rejected"})

\* the server was redeployed after the requirements were fetched: a pay()
\* pinned to the Base Sepolia option at its old price failed with nothing
\* signed, and a pay() pinned to the Base option, now listed first, signed
\* that option and resolved
C11_Witness ==
  \E a, b \in Invocations :
    /\ att[a].sel = RequirementSel(R1)
    /\ att[a].offered = Some(<<R2, R1Cheaper>>)
    /\ att[a].err = NotFoundMsg
    /\ att[a].signed = None
    /\ att[a].pc = "rejected"
    /\ att[b].sel = RequirementSel(R2)
    /\ att[b].offered = Some(<<R2, R1Cheaper>>)
    /\ att[b].signed = Some(R2)
    /\ att[b].pc = "resolved"

(* ---------------------------------------------------------------------- *)
(* fetchPaymentRequirements                                                *)
(* ---------------------------------------------------------------------- *)
\* call i of fetchPaymentRequirements returns in this step
FetchReturns(i) == fetches[i].pc = "fetch" /\ fetches'[i].pc = "returned"

\* C17: a call of fetchPaymentRequirements whose response has no
\* PAYMENT-REQUIRED header returns null and sets paymentRequirements to null;
\* a call whose response has a header that decodes to a value with accepts
\* returns that accepts list and stores the same list in paymentRequirements
C17_FetchStoresWhatItReturns ==
  [][\A i \in 1..Len(fetches) :
       FetchReturns(i) =>
         /\ fetches'[i].got = "noHeader" =>
              (fetches'[i].ret = None /\ paymentRequirements' = None)
         /\ fetches'[i].got = "accepts" =>
              /\ fetches'[i].ret = Some(ServerAccepts(fetches[i].url, server))
              /\ paymentRequirements' = fetches'[i].ret]_vars

\* a call found no header and returned null after a call for the other url
\* had stored its list, and a later call stored the list of its url
C17_Witness ==
  /\ Len(fetches) = 3
  /\ fetches[1].got = "accepts"
  /\ fetches[2].got = "noHeader" /\ fetches[2].ret = None
  /\ fetches[3].got = "accepts" /\ fetches[3].url = "/payment/builder"
  /\ fetches[3].ret = Some(AcceptsOf("/payment/builder"))
  /\ paymentRequirements = fetches[3].ret

\* C18: on mount one fetch of the requirements of the url is out, and every
\* step that changes the url of the hook starts exactly one new fetch, for
\* the new url, in that same step
C18_FetchedOnEveryUrlChange ==
  /\ fetches = <<Fetch(InitialUrl, "fetch", "pending", None)>>
  /\ [][url' # url =>
         fetches' = Append(fetches, Fetch(url', "fetch", "pending", None))]_vars

\* the url was changed and changed back: each change started a fetch, the
\* second one for the url fetched on mount
C18_Witness ==
  /\ Len(fetches) = 3
  /\ fetches[1].url = InitialUrl
  /\ fetches[2].url = "/payment/builder"
  /\ fetches[3].url = InitialUrl
  /\ url = InitialUrl
  /\ fetches[1].pc = "returned"

(* ---------------------------------------------------------------------- *)
(* Errors                                                                  *)
(* ---------------------------------------------------------------------- *)
\* the requests, selections and signings in a log, in order
WrapperCallsIn(log) == SelectSeq(log, LAMBDA c : c \in WrapperCalls)

\* the one sequence an invocation can drive, and its beginnings
FullSequence == <<"request", "select", "sign", "retry">>
Beginnings == {SubSeq(FullSequence, 1, n) : n \in 0..Len(FullSequence)}

\* invocation a has ended in error
EndedInError(a) == att[a].pc \in {"onError", "onSettledErr", "rejected"}

\* C19: an invocation of pay() drives at most one sequence request, select,
\* sign, retry, and once it has left its await of fetchWithPayment (so once
\* it has ended in error) no request, selection or signing is made for it
\* any more; requests are made only for invocations the caller has made
C19_NoAutomaticRetry ==
  /\ [](\A a \in Invocations : WrapperCallsIn(att[a].log) \in Beginnings)
  /\ [][\A a \in Invocations :
         (att[a].pc # "fetch" \/ EndedInError(a)) =>
           WrapperCallsIn(att'[a].log) = WrapperCallsIn(att[a].log)]_vars

\* the first invocation failed at its first request, the second at the
\* signer, and both were rejected; each made its calls once
C19_Witness ==
  /\ Len(att) = 2
  /\ att[1].pc = "rejected" /\ att[1].log = <<"request">> /\ att[1].err = NetworkMsg
  /\ att[2].pc = "rejected" /\ att[2].log = <<"request", "select", "sign">>
  /\ att[2].err = SignRejectedMsg
  /\ status = "error"

\* the selector of the invocation threw on the list it was offered
SelectorThrew(at) == at.offered # None /\ ~Select(at.sel, at.offered).ok

\* the signer of the invocation was handed a requirement and rejected
SignerRejected(at) ==
  /\ at.pc \in {"onError", "onSettledErr", "rejected"}
  /\ at.signed # None
  /\ at.err \in SignErrors

\* the position of call c in a log (0 when it is not there)
PositionIn(log, c) ==
  IF c \in Range(log) THEN CHOOSE i \in 1..Len(log) : log[i] = c ELSE 0

\* C20: an invocation makes its calls in the order request, select, sign,
\* retry; when its selector throws nothing is signed and no request is
\* retried; when its signer rejects no request is retried; in both cases the
\* invocation sets status to error as it leaves fetchWithPayment, and by the
\* time it has settled onError and then onSettled have been invoked (each
\* when supplied)
C20_SelectionAndSigningAbort ==
  /\ [](\A a \in Invocations :
         /\ WrapperCallsIn(att[a].log) \in Beginnings
         /\ SelectorThrew(att[a]) =>
              /\ att[a].signed = None
              /\ "sign" \notin Range(att[a].log)
              /\ "retry" \notin Range(att[a].log)
         /\ SignerRejected(att[a]) => "retry" \notin Range(att[a].log)
         /\ ((SelectorThrew(att[a]) \/ SignerRejected(att[a])) /\ att[a].pc = "rejected") =>
              /\ callbacks.onError # "absent" => "onError" \in Range(att[a].log)
              /\ callbacks.onSettled # "absent" =>
                   /\ "onSettledErr" \in Range(att[a].log)
                   /\ PositionIn(att[a].log, "onError")
                        < PositionIn(att[a].log, "onSettledErr"))
  /\ [][\A a \in Invocations :
         (att[a].pc = "fetch" /\ (SelectorThrew(att'[a]) \/ SignerRejected(att'[a]))) =>
           (status' = "error" /\ error' # None /\ att'[a].pc # "fetch")]_vars

(* ---------------------------------------------------------------------- *)
(* Ownership of status and result                                          *)
(* ---------------------------------------------------------------------- *)
\* C21: a step that takes status from a value other than idle back to idle,
\* or result from a value back to null, is a reset(): no start of a pay(),
\* no step of a pay() and no requirement fetch does either
C21_OnlyResetResets ==
  [][((status # "idle" /\ status' = "idle") \/ (result # None /\ result' = None))
       => reset]_vars

\* reset() ran after a pay() had succeeded and after the requirements were
\* fetched: status is idle and the result is gone
C21_Witness ==
  /\ status = "idle"
  /\ result = None
  /\ paymentRequirements # None
  /\ \E a \in Invocations : att[a].pc = "resolved" /\ att[a].out # None

\* the invocations that have succeeded (their body was parsed and stored)
Succeeded == {a \in Invocations : att[a].data # None}

UnlockedBy ==
  {a \in Invocations : /\ att[a].pc = "fetch"
                       /\ att'[a].pc = "onSuccess"
                       /\ att'[a].resp # None
                       /\ att'[a].resp[1].ok}

\* C23: on the payment page hasAccessToStream changes only from false to
\* true, and only in the step in which the onSuccess callback of a pay()
\* invocation whose final response was successful is invoked; no failed
\* invocation, requirement fetch, selection change or wallet change sets it
C23_UnlockedOnlyByOnSuccess ==
  [][hasAccessToStream' # hasAccessToStream =>
       (hasAccessToStream' /\ UnlockedBy # {})]_vars

\* the stream is unlocked after one invocation failed and another succeeded,
\* with the wallet disconnected since
C23_Witness ==
  /\ hasAccessToStream
  /\ walletClient = "none"
  /\ \E a \in Invocations : att[a].pc = "rejected" /\ att[a].resp # None
  /\ \E a \in Invocations : att[a].pc = "resolved" /\ att[a].resp # None

\* ------------------------------------------------------------------------
\* termination of pay()

Settled(a) == a \in Invocations /\ att[a].pc \in {"resolved", "rejected"}

\* every invocation that entered paying eventually settles
EveryInvocationSettles ==
  \A a \in 1..MaxPays : (a \in Invocations /\ att[a].pc = "fetch") ~> Settled(a)

\* the step in which the request of an invocation completes sets status to
\* success or error
RequestEndsPaying ==
  [][\A a \in Invocations :
       (att[a].pc = "fetch" /\ att'[a].pc # "fetch") => status' \in {"success", "error"}]_vars

\* the final response of the invocation is a successful one with a JSON body
FinalOkJson(at) == at.resp # None /\ at.resp[1].ok /\ at.resp[1].body = "json"

\* an invocation whose final response is successful with a JSON body sets
\* status to success and result to that body
OkJsonSucceeds ==
  [][\A a \in Invocations :
       (att[a].pc = "fetch" /\ FinalOkJson(att'[a])) =>
         (status' = "success" /\ result' = att'[a].data /\ result' # None)]_vars

\* C24: when every network call, the signer and every callback eventually
\* complete, every invocation of pay() that entered paying eventually settles,
\* status becoming success or error when its request completes; and with a
\* final successful response with a JSON body it becomes success with result
\* equal to that body
C24_PayTerminates == EveryInvocationSettles /\ RequestEndsPaying /\ OkJsonSucceeds

\* ------------------------------------------------------------------------
\* the balance check

BalanceChecked == "tokenData" \in DOMAIN call /\ call.ret # None

\* the result of the lookup at position i of the token data did not succeed
LookupFailed(i) == call.tokenData[1][i].status # "success"

\* the check cannot be made: nothing is selected, the token data is missing,
\* a lookup did not succeed, or parsing the required amount throws
CannotCheck ==
  \/ selectedRequirement = None
  \/ call.tokenData = None
  \/ Len(call.tokenData[1]) < 2
  \/ LookupFailed(1)
  \/ LookupFailed(2)
  \/ BigIntThrows(selectedRequirement[1].amount)

\* C25: hasSufficientBalance is true whenever no requirement is selected, the
\* token data is missing, the decimals or the balance lookup did not succeed,
\* or parsing throws; it is false only when both lookups succeeded and the
\* balance, as an integer of base units, is below the required amount
C25_BalanceCheckFailsOpen ==
  BalanceChecked =>
    /\ CannotCheck => call.ret[1] = TRUE
    /\ call.ret[1] = FALSE =>
         /\ ~LookupFailed(1) /\ ~LookupFailed(2)
         /\ call.tokenData[1][2].result < BigInt(requiredAmount(selectedRequirement[1]))

\* the balance lookup failed with a requirement selected and the decimals
\* known, and the check allows the payment
C25_Witness ==
  /\ BalanceChecked
  /\ selectedRequirement = Some(R1)
  /\ call.tokenData # None /\ Len(call.tokenData[1]) = 2
  /\ ~LookupFailed(1) /\ LookupFailed(2)
  /\ call.tokenData[1][2].result = 0
  /\ call.ret = Some(TRUE)

\* the check blocks the payment
BalanceBlocks == BalanceChecked /\ call.ret = Some(FALSE)

\* ------------------------------------------------------------------------
\* the Pay button

\* the invocations whose payment request is under way
Requesting == {a \in Invocations : att[a].pc = "fetch"}

\* C26: on the payment page at most one invocation of pay() has its request
\* under way at any time, and handlePayment never starts one while another
\* is under way, two clicks dispatched before the status is rendered included
C26_PageSerializesPay ==
  /\ Cardinality(Requesting) <= 1
  /\ Cardinality(Requesting) = 1 => status = "paying"

\* ------------------------------------------------------------------------
\* the callbacks of pay()

\* invocation a passed the wallet check
PassedWalletCheck(a) == ~(att[a].pc = "rejected" /\ att[a].err = NoWalletMsg)

\* the three callbacks are supplied
AllSupplied == \A c \in DOMAIN callbacks : callbacks[c] # "absent"

\* how many of the calls in a log are in a set
CountIn(log, calls) == Cardinality({i \in 1..Len(log) : log[i] \in calls})

\* the callbacks of a settled invocation: one of onSuccess and onError, and
\* then onSettled, once
CalledBackOnce(a) ==
  LET c == Called(a)
  IN  /\ CountIn(c, {"onSuccess", "onError"}) = 1
      /\ CountIn(c, {"onSettledOk", "onSettledErr"}) = 1
      /\ Len(c) = 2
      /\ c[2] \in {"onSettledOk", "onSettledErr"}

\* C27: every invocation of pay() that passed the wallet check and was given
\* the three callbacks has, once settled, invoked exactly one of onSuccess and
\* onError and then onSettled exactly once; and an invocation that has set
\* status to success never sets it to error, whatever the callbacks do
C27_CallbacksExactlyOnce ==
  /\ [](\A a \in Invocations :
          (Settled(a) /\ PassedWalletCheck(a) /\ AllSupplied) => CalledBackOnce(a))
  /\ [][\A a \in Invocations :
          (att[a].data # None /\ att'[a] # att[a]) =>
             ~(status' = "error" /\ EndedInError(a)')]_vars

\* the same, for callbacks that return
CallbacksThatReturn ==
  callbacks = AllReturn =>
    \A a \in Invocations : (Settled(a) /\ PassedWalletCheck(a)) => CalledBackOnce(a)

\* ------------------------------------------------------------------------
\* what pay() writes

\* pay() is invoked in this step
Starts == Len(att') = Len(att) + 1

\* the request of invocation a completes in this step and the invocation
\* succeeds
Succeeds(a) == att[a].pc = "fetch" /\ att'[a].data # None

\* C28: a step of pay() never changes paymentRequirements; it changes result
\* only when an invocation succeeds, to that invocation's payload; the step
\* that starts an invocation changes no state but status and error, and
\* changes error only to clear it or to report a failure of that step; the
\* requirements an invocation is offered are the server's, not the cached ones
C28_PayWritesResultOnlyOnSuccess ==
  [][att' # att =>
       /\ paymentRequirements' = paymentRequirements
       /\ result' # result => \E a \in Invocations : Succeeds(a)
       /\ \A a \in Invocations : Succeeds(a) => result' = att'[a].data
       /\ Starts => (result' = result /\ (error' = None \/ status' = "error"))
       /\ \A a \in Invocations :
            (att'[a].offered # None /\ att[a].offered = None) =>
               att'[a].offered[1] \in Offers(url, server)]_vars

\* a successful invocation was followed by a failed one: status is error and
\* result still holds the payload of the first; the cached requirements are
\* still there
C28_Witness ==
  /\ Len(att) = 2
  /\ att[1].pc = "resolved" /\ att[2].pc = "rejected" /\ att[2].resp # None
  /\ status = "error" /\ error # None
  /\ result = att[1].data /\ result # None
  /\ paymentRequirements # None

\* ------------------------------------------------------------------------
\* fetchPaymentRequirements never rejects

\* call i of fetchPaymentRequirements leaves its await in this step
FetchEnds(i) == fetches[i].pc = "fetch" /\ fetches'[i].pc # "fetch"

\* the outcomes on which there are no requirements to return
FailedOutcomes == {"throws", "badHeader", "noAccepts"}

\* C29: every call of fetchPaymentRequirements returns; when the request
\* throws, the header does not decode or the decoded value has no accepts it
\* returns null and sets paymentRequirements to null; whatever the outcome the
\* value it returns is the value it stored in paymentRequirements; and its
\* step changes neither status nor error nor result
C29_FetchNeverRejects ==
  [][\A i \in 1..Len(fetches) :
       FetchEnds(i) =>
         /\ fetches'[i].pc = "returned"
         /\ fetches'[i].got \in FailedOutcomes =>
              (fetches'[i].ret = None /\ paymentRequirements' = None)
         /\ fetches'[i].got \in FetchOutcomes
         /\ paymentRequirements' = fetches'[i].ret
         /\ UNCHANGED <<status, error, result>>]_vars

\* a call whose request threw returned null and set the stored list to null,
\* after an earlier call had stored a list and a payment had succeeded
C29_Witness ==
  /\ Len(fetches) = 2
  /\ fetches[1].got = "accepts" /\ fetches[1].ret # None
  /\ fetches[2].got = "throws" /\ fetches[2].pc = "returned" /\ fetches[2].ret = None
  /\ paymentRequirements = None
  /\ status = "success" /\ result # None

\* ------------------------------------------------------------------------
\* the video player

Effects == 1..Len(ivs.effects)

\* run e of the effect holds nothing: the player it created, if any, is
\* deleted, and none of its intervals and listeners is active
HoldsNothing(e) ==
  /\ ivs.effects[e].player # "created"
  /\ ivs.effects[e].intervals # "active"
  /\ ivs.effects[e].listeners # "active"

\* C30: once the cleanup of a run of the player effect has run (the component
\* unmounted or playbackUrl changed), no player that run created remains
\* undeleted and no interval or listener it registered remains active,
\* whether the import of the SDK settles before the cleanup or after it
C30_CleanupReleasesEverything ==
  \A e \in Effects : ivs.effects[e].cleaned => HoldsNothing(e)

\* the same, as long as no import has settled after the cleanup of its run
CleanupAfterImportReleases ==
  (\A e \in Effects : ~ivs.effects[e].late) =>
     \A e \in Effects : (ivs.effects[e].cleaned /\ ivs.effects[e].pc = "done") => HoldsNothing(e)

\* the same for a component that unmounted before any change of playbackUrl
UnmountReleases ==
  (~ivs.mounted /\ Len(ivs.effects) = 1) => HoldsNothing(1)
====
